---- MODULE Spec2Model ----
(***************************************************************************)
(* Order / payment lifecycle of the organic-store back end.                *)
(*                                                                         *)
(* The database is PostgreSQL reached through Prisma (and, for one variant *)
(* of the user-cancel route, through the Supabase client).  No handler     *)
(* sets an isolation level, so interactive transactions run at the         *)
(* database default, READ COMMITTED: every statement of a transaction sees *)
(* the rows committed when that statement runs, a relative UPDATE          *)
(* (increment / decrement) is applied to the newest committed row, and the *)
(* writes of a transaction become visible together at commit.  Every       *)
(* handler is therefore a sequence of steps, one per database statement    *)
(* (or per group of statements that only write), and steps of different    *)
(* requests interleave.                                                    *)
(***************************************************************************)
EXTENDS Integers, Sequences, FiniteSets, Bags, TLC

\* ---------------------------------------------------------------- bounds
MaxStock == 2        \* the stock an admin edit sets is 0 or MaxStock
MaxOrders == 1       \* orders created in one behaviour
MaxConfirm == 1      \* verifications are started while an order was confirmed fewer times
MaxRestore == 1      \* cancellations are started while an order's stock was restored at most this often
MaxAdminOps == 1     \* admin product edits in one behaviour
MaxInFlight == 2     \* requests in flight together
MaxMergeLen == 2     \* items in the body of one cart merge

Users == {"u1", "u2"}
Products == {"p1", "p2"}
PaymentIds == {"pay_1"}
Prices == {100}

\* nullable columns: Null is SQL NULL / JS null, Some(x) a value
Null == <<>>
Some(x) == <<x>>
Get(m) == m[1]

Discounts == {Some(100)}

NewNames == {"Renamed"}

Statuses == {"ORDER_CREATED", "PAYMENT_PENDING", "PAYMENT_SUCCESS", "PAYMENT_FAILED",
             "ORDER_CONFIRMED", "SHIPPED", "DELIVERED", "CANCELLED"}

VARIABLES
    product,      \* Product rows: [price, discountPercent, stock, isActive]
    cartItems,    \* CartItem rows: [id, userId (owner of the cart), productId, quantity]
    orders,       \* Order rows with their OrderItems, indexed by order id
    req,          \* bag of in-flight requests: position and locals of each handler
    hist,         \* per order: confirmations committed, stock restorations, gateway intents
    adminOps,     \* admin product edits so far
    resp          \* the response sent by the last step, NoResp when it sent none

vars == <<product, cartItems, orders, req, hist, adminOps, resp>>

\* ------------------------------------------------------------- helpers
RECURSIVE SumFinal(_)
SumFinal(items) ==
    IF items = <<>> THEN 0 ELSE Head(items).finalPrice + SumFinal(Tail(items))


\* ---- IEEE-754 double arithmetic of price * (1 - discountPercent / 100)
\* Significands are natural numbers of up to 75 bits, held as five limbs of 15 bits,
\* least significant first; prices are below 2^15.
Base == 32768

\* the limbs after carrying c and every overflow of a limb into the next one
RECURSIVE Carried(_, _)
Carried(a, c) ==
    IF a = <<>> THEN <<>>
    ELSE <<(Head(a) + c) % Base>> \o Carried(Tail(a), (Head(a) + c) \div Base)

\* 2^k, k < 75
Pow2(k) == [i \in 1..5 |-> IF i = (k \div 15) + 1 THEN 2 ^ (k % 15) ELSE 0]

TimesSmall(a, m) == Carried([i \in 1..Len(a) |-> a[i] * m], 0)

Plus(a, b) == Carried([i \in 1..Len(a) |-> a[i] + b[i]], 0)

\* a - b for a >= b
RECURSIVE Minus(_, _, _)
Minus(a, b, borrow) ==
    IF a = <<>> THEN <<>>
    ELSE <<IF Head(a) - Head(b) - borrow < 0 THEN Head(a) - Head(b) - borrow + Base
           ELSE Head(a) - Head(b) - borrow>>
            \o Minus(Tail(a), Tail(b), IF Head(a) - Head(b) - borrow < 0 THEN 1 ELSE 0)

Reversed(s) == [i \in 1..Len(s) |-> s[Len(s) + 1 - i]]

\* long division by m <= 2^15 from the most significant limb down: quotient limbs
RECURSIVE QuotientFrom(_, _, _)
QuotientFrom(high, m, rem) ==
    IF high = <<>> THEN <<>>
    ELSE <<(rem * Base + Head(high)) \div m>>
            \o QuotientFrom(Tail(high), m, (rem * Base + Head(high)) % m)

RECURSIVE RemainderFrom(_, _, _)
RemainderFrom(high, m, rem) ==
    IF high = <<>> THEN rem ELSE RemainderFrom(Tail(high), m, (rem * Base + Head(high)) % m)

Quotient(a, m) == Reversed(QuotientFrom(Reversed(a), m, 0))

\* a / m rounded to the nearest integer, ties to even: the rounding of a double result
RoundedQuotient(a, m) ==
    LET q == Quotient(a, m)
        r == RemainderFrom(Reversed(a), m, 0)
    IN IF 2 * r > m \/ (2 * r = m /\ q[1] % 2 = 1) THEN Plus(q, Pow2(0)) ELSE q

\* a \div 2^k, a value below 2^30
DividedByPow2(a, k) ==
    LET q == Quotient(SubSeq(a, (k \div 15) + 1, Len(a)) \o [i \in 1..(k \div 15) |-> 0],
                      2 ^ (k % 15))
    IN q[1] + Base * q[2]

\* d / 100 lies in [2^-BinadeOf(d), 2^(1 - BinadeOf(d))), 1 <= d <= 99
BinadeOf(d) == CHOOSE n \in 1..7 : d * 2 ^ n >= 100 /\ d * 2 ^ (n - 1) < 100

\* the double d / 100, as a multiple of 2^-(BinadeOf(d) + 52)
DiscountQuotient(d) == RoundedQuotient(TimesSmall(Pow2(BinadeOf(d) + 52), d), 100)

\* the double 1 - d / 100, as a multiple of 2^-53
OneMinusDiscount(d) ==
    RoundedQuotient(Minus(Pow2(BinadeOf(d) + 52), DiscountQuotient(d), 0),
                    2 ^ (BinadeOf(d) - 1))

BitLength(n) == CHOOSE k \in 0..31 : n < 2 ^ k /\ (k = 0 \/ n >= 2 ^ (k - 1))

\* Math.round(price * f) for the double f = m / 2^53: the product is rounded to a
\* double, then half is added and the floor taken
RoundedProduct(price, m) ==
    LET exact == TimesSmall(m, price)
        n == BitLength(DividedByPow2(exact, 53))
        double == RoundedQuotient(exact, 2 ^ n)
    IN DividedByPow2(Plus(double, Pow2(52 - n)), 53 - n)

calculateDiscountedPrice(price, discountPercent) ==
    IF discountPercent = Null \/ discountPercent = Some(0)
    THEN price
    ELSE IF Get(discountPercent) = 100 THEN 0
    ELSE RoundedProduct(price, OneMinusDiscount(Get(discountPercent)))

OrderIds == 1..Len(orders)

ItemProducts(items) == {items[i].productId : i \in 1..Len(items)}

\* total quantity of product p over the items of an order
RECURSIVE QtyOf(_, _)
QtyOf(items, p) ==
    IF items = <<>> THEN 0
    ELSE (IF Head(items).productId = p THEN Head(items).quantity ELSE 0) + QtyOf(Tail(items), p)

\* cart rows as the ordered list a query returns (by id)
RECURSIVE SortById(_)
SortById(S) ==
    IF S = {} THEN <<>>
    ELSE LET m == CHOOSE x \in S : \A y \in S : x.id <= y.id
         IN <<m>> \o SortById(S \ {m})

CartOf(u) == {c \in cartItems : c.userId = u}

\* ------------------------------------------------------------ requests
NoReq == [kind |-> "none", pc |-> "idle", user |-> "u1", oid |-> 0, ref |-> Null,
          payId |-> "pay_1", sig |-> Null, pay |-> Null, snapStatus |-> "none",
          newStatus |-> "none", i |-> 0, readStock |-> 0, items |-> <<>>, snap |-> {},
          resp |-> "none"]

CanStart == BagCardinality(req) < MaxInFlight

InFlight == BagToSet(req)

\* a finished request keeps only what it answered
Done(kind, u, o, code) == [NoReq EXCEPT !.kind = kind, !.pc = "done", !.user = u,
                                       !.oid = o, !.resp = code]

DbUnchanged == UNCHANGED <<product, cartItems, orders, hist, adminOps>>

NoResp == [kind |-> "none", user |-> "u1", oid |-> 0, ref |-> Null, code |-> "none"]

Answer(next) ==
    IF next.pc = "done"
    THEN [kind |-> next.kind, user |-> next.user, oid |-> next.oid, ref |-> next.ref,
          code |-> next.resp]
    ELSE NoResp

Entered(next) == IF next.pc = "done" THEN EmptyBag ELSE SetToBag({next})

\* a new request arrives and runs up to `next`; a finished request answers and leaves
Begin(next) ==
    /\ req' = req (+) Entered(next)
    /\ resp' = Answer(next)

\* the in-flight request r moves on to `next`
Goto(r, next) ==
    /\ req' = (req (-) SetToBag({r})) (+) Entered(next)
    /\ resp' = Answer(next)

Init ==
    /\ product = [p \in Products |->
                    IF p = "p1"
                    THEN [name |-> "Rice", price |-> 100, discountPercent |-> Null, stock |-> 1,
                          isActive |-> TRUE]
                    ELSE [name |-> "Honey", price |-> 250, discountPercent |-> Some(10),
                          stock |-> 2, isActive |-> TRUE]]
    /\ cartItems = {[id |-> 1, userId |-> "u1", productId |-> "p1", quantity |-> 1],
                    [id |-> 2, userId |-> "u1", productId |-> "p2", quantity |-> 2],
                    [id |-> 3, userId |-> "u2", productId |-> "p1", quantity |-> 1]}
    /\ orders = <<>>
    /\ req = EmptyBag
    /\ hist = <<>>
    /\ adminOps = 0
    /\ resp = NoResp


\* ------------------------------------------------ POST /api/orders/create
AllCartItemIds == {1, 2, 3}

RECURSIVE SumCopies(_)
SumCopies(S) ==
    IF S = {} THEN 0
    ELSE LET x == CHOOSE y \in S : TRUE IN CopiesIn(x, req) + SumCopies(S \ {x})

PendingCreates == SumCopies({r \in InFlight : r.pc \in {"co_products", "co_tx"}})

\* orderItemsData entries before any price is known
BlankItem(c) == [productId |-> c.productId, productName |-> "", quantity |-> c.quantity,
                 unitPrice |-> 0, discountPercent |-> Null, finalPrice |-> 0]

\* one orderItemsData entry priced from a product row
PricedItem(it, row) ==
    LET unit == calculateDiscountedPrice(row.price, row.discountPercent)
    IN [it EXCEPT !.unitPrice = unit,
                  !.discountPercent = row.discountPercent,
                  !.finalPrice = unit * it.quantity]

\* cart lookup, ownership check of the selected ids, quantity validation
CreateOrderStart(u, sel) ==
    /\ CanStart
    /\ Len(orders) + PendingCreates < MaxOrders
    /\ LET cart == CartOf(u)
           invalidIds == sel \ {c.id : c \in cart}
           selected == SortById({c \in cart : c.id \in sel})
       IN Begin(
            IF invalidIds # {} THEN Done("createOrder", u, 0, "400_invalid_ids")
            ELSE IF selected = <<>> THEN Done("createOrder", u, 0, "400_no_items")
            ELSE IF \E k \in 1..Len(selected) : selected[k].quantity \notin 1..99
                 THEN Done("createOrder", u, 0, "400_quantity")
            ELSE [NoReq EXCEPT !.kind = "createOrder", !.pc = "co_products", !.user = u,
                               !.items = [k \in 1..Len(selected) |-> BlankItem(selected[k])]])
    /\ DbUnchanged

\* products read before the transaction: all must exist and be active
CreateOrderProducts(r) ==
    /\ r.pc = "co_products"
    /\ LET productIds == [k \in 1..Len(r.items) |-> r.items[k].productId]
           found == {p \in Products : p \in ItemProducts(r.items) /\ product[p].isActive}
       IN Goto(r,
            IF Cardinality(found) # Len(productIds)
            THEN Done("createOrder", r.user, 0, "400_unavailable")
            ELSE [r EXCEPT !.pc = "co_tx",
                           !.items = [k \in 1..Len(r.items) |->
                                        LET row == product[r.items[k].productId]
                                        IN [PricedItem(r.items[k], row)
                                               EXCEPT !.productName = row.name]]])
    /\ DbUnchanged

\* the items as priced before the transaction
TxItemsStale(items) == items

\* the items the transaction inserts: prices recomputed from the rows it re-reads
TxItems(items) == [k \in 1..Len(items) |-> PricedItem(items[k], product[items[k].productId])]

NewOrder(u, items) ==
    [userId |-> u, status |-> "PAYMENT_PENDING", totalAmount |-> SumFinal(items),
     items |-> items, razorpayOrderId |-> Null, razorpayPaymentId |-> Null,
     razorpaySignature |-> Null, paidAt |-> Null]

NoHist == [confirms |-> 0, restores |-> 0, intents |-> 0]

\* the same transaction, taking the ordered quantities off the stock at once
CreateOrderTxDeductsStock(r) ==
    /\ r.pc = "co_tx"
    /\ \A k \in 1..Len(r.items) :
          /\ product[r.items[k].productId].isActive
          /\ product[r.items[k].productId].stock >= r.items[k].quantity
    /\ orders' = Append(orders, NewOrder(r.user, TxItems(r.items)))
    /\ hist' = Append(hist, NoHist)
    /\ product' = [p \in Products |-> [product[p] EXCEPT !.stock = @ - QtyOf(r.items, p)]]
    /\ Goto(r, [r EXCEPT !.pc = "co_gateway", !.oid = Len(orders) + 1, !.items = <<>>])
    /\ UNCHANGED <<cartItems, adminOps>>

\* the same transaction without the stock validation
CreateOrderTxNoStockCheck(r) ==
    /\ r.pc = "co_tx"
    /\ IF \E k \in 1..Len(r.items) : ~product[r.items[k].productId].isActive
       THEN /\ Goto(r, Done("createOrder", r.user, 0, "400_product_not_found"))
            /\ DbUnchanged
       ELSE /\ orders' = Append(orders, NewOrder(r.user, TxItems(r.items)))
            /\ hist' = Append(hist, NoHist)
            /\ Goto(r, [r EXCEPT !.pc = "co_gateway", !.oid = Len(orders) + 1, !.items = <<>>])
            /\ UNCHANGED <<product, cartItems, adminOps>>

\* the creation transaction: re-read products, recompute, validate stock, insert
CreateOrderTx(r) ==
    /\ r.pc = "co_tx"
    /\ LET items == TxItems(r.items)
       IN IF \E k \in 1..Len(r.items) : ~product[r.items[k].productId].isActive
          THEN /\ Goto(r, Done("createOrder", r.user, 0, "400_product_not_found"))
               /\ DbUnchanged
          ELSE IF \E k \in 1..Len(r.items) :
                     product[r.items[k].productId].stock < r.items[k].quantity
          THEN /\ Goto(r, Done("createOrder", r.user, 0, "400_insufficient_stock"))
               /\ DbUnchanged
          ELSE /\ orders' = Append(orders, NewOrder(r.user, items))
               /\ hist' = Append(hist, NoHist)
               /\ Goto(r, [r EXCEPT !.pc = "co_gateway",
                                                      !.oid = Len(orders) + 1,
                                                      !.items = <<>>])
               /\ UNCHANGED <<product, cartItems, adminOps>>

\* createRazorpayOrder: the gateway issues a fresh order id for the intent
NewIntent(o) == <<o, hist[o].intents + 1>>

\* the same step, marking the order PAYMENT_FAILED when the gateway call fails
CreateOrderGatewayFailsOrder(r) ==
    /\ r.pc = "co_gateway"
    /\ LET o == r.oid
       IN IF orders[o].totalAmount <= 0
          THEN /\ Goto(r, Done("createOrder", r.user, o, "500"))
               /\ DbUnchanged
          ELSE \/ /\ orders' = [orders EXCEPT ![o].razorpayOrderId = Some(NewIntent(o))]
                  /\ hist' = [hist EXCEPT ![o].intents = @ + 1]
                  /\ Goto(r, Done("createOrder", r.user, o, "200"))
                  /\ UNCHANGED <<product, cartItems, adminOps>>
               \/ /\ orders' = [orders EXCEPT ![o].status = "PAYMENT_FAILED"]
                  /\ Goto(r, Done("createOrder", r.user, o, "200_warning"))
                  /\ UNCHANGED <<product, cartItems, hist, adminOps>>

\* after commit: amount check, then gateway intent and its reference stored on the order
CreateOrderGateway(r) ==
    /\ r.pc = "co_gateway"
    /\ LET o == r.oid
       IN IF orders[o].totalAmount <= 0
          THEN /\ Goto(r, Done("createOrder", r.user, o, "500"))
               /\ DbUnchanged
          ELSE \/ /\ orders' = [orders EXCEPT ![o].razorpayOrderId = Some(NewIntent(o))]
                  /\ hist' = [hist EXCEPT ![o].intents = @ + 1]
                  /\ Goto(r, Done("createOrder", r.user, o, "200"))
                  /\ UNCHANGED <<product, cartItems, adminOps>>
               \/ /\ Goto(r, Done("createOrder", r.user, o, "200_warning"))
                  /\ DbUnchanged


\* ------------------------------------------------ POST /api/payments/verify
\* HMAC of "<gateway order id>|<payment id>" under the shared secret
Sign(ref, payId) == <<"hmac", ref, payId>>
Forged == <<"forged">>

verifyRazorpaySignature(ref, payId, sig) == sig = Sign(ref, payId)

\* gateway order ids a client can claim for order o: the stored one, or another
OtherRef == <<0, 0>>

ClaimableRefs(o) ==
    {OtherRef} \cup (IF orders[o].razorpayOrderId = Null THEN {} ELSE {Get(orders[o].razorpayOrderId)})

\* a finished verification also tells which gateway order id the client claimed
VDone(u, o, ref, code) == [Done("verify", u, o, code) EXCEPT !.ref = ref]

\* the same checks without the idempotency branch for an order already confirmed
VerifyPrecheckNoIdempotency(order, u, ref, payId, sig) ==
    IF order.userId # u THEN "404"
    ELSE IF order.razorpayOrderId # Some(ref) THEN "400_ref_mismatch"
    ELSE IF order.status \notin {"PAYMENT_PENDING", "ORDER_CONFIRMED"} THEN "400_status"
    ELSE IF ~verifyRazorpaySignature(ref, payId, sig) THEN "400_signature"
    ELSE "ok"

\* the same checks with the order looked up by id alone, whoever the caller is
VerifyPrecheckAnyUser(order, u, ref, payId, sig) ==
    IF order.razorpayOrderId # Some(ref) THEN "400_ref_mismatch"
    ELSE IF order.status = "ORDER_CONFIRMED" THEN "200_already_confirmed"
    ELSE IF order.status # "PAYMENT_PENDING" THEN "400_status"
    ELSE IF ~verifyRazorpaySignature(ref, payId, sig) THEN "400_signature"
    ELSE "ok"

\* the checks made on the order row before the gateway is asked; "ok" lets it go on
VerifyPrecheck(order, u, ref, payId, sig) ==
    IF order.userId # u THEN "404"
    ELSE IF order.razorpayOrderId # Some(ref) THEN "400_ref_mismatch"
    ELSE IF order.status = "ORDER_CONFIRMED" THEN "200_already_confirmed"
    ELSE IF order.status # "PAYMENT_PENDING" THEN "400_status"
    ELSE IF ~verifyRazorpaySignature(ref, payId, sig) THEN "400_signature"
    ELSE "ok"

\* order lookup scoped by the caller, reference / status checks, signature check
VerifyStart(u, o, ref, payId, sig) ==
    /\ CanStart
    /\ hist[o].confirms < MaxConfirm \/ orders[o].status # "PAYMENT_PENDING"
    /\ LET verdict == VerifyPrecheck(orders[o], u, ref, payId, sig)
       IN Begin(IF verdict = "ok"
                THEN [NoReq EXCEPT !.kind = "verify", !.pc = "v_gateway", !.user = u, !.oid = o,
                                   !.ref = Some(ref), !.payId = payId, !.sig = sig]
                ELSE VDone(u, o, Some(ref), verdict))
    /\ DbUnchanged

\* what the gateway can answer for a payment id
GatewayPayments(ref, total) ==
    [status : {"captured", "failed"}, order_id : {ref, OtherRef}, amount : {total, total - 1}]

\* the same checks without the comparison of the amount
PaymentCheckNoAmount(pay, ref, total) ==
    IF pay.status # "captured" THEN "400_not_captured"
    ELSE IF pay.order_id # ref THEN "400_payment_order_mismatch"
    ELSE "ok"

\* the checks on the payment fetched from the gateway; "ok" lets the transaction run
PaymentCheck(pay, ref, total) ==
    IF pay.status # "captured" THEN "400_not_captured"
    ELSE IF pay.order_id # ref THEN "400_payment_order_mismatch"
    ELSE IF pay.amount # total THEN "400_amount_mismatch"
    ELSE "ok"

\* the same step, marking the order PAYMENT_FAILED when the payment is rejected
VerifyGatewayMarksFailed(r) ==
    /\ r.pc = "v_gateway"
    /\ LET total == orders[r.oid].totalAmount
       IN \E pay \in GatewayPayments(Get(r.ref), total) :
             LET verdict == PaymentCheck(pay, Get(r.ref), total)
             IN /\ Goto(r,
                     IF verdict = "ok" THEN [r EXCEPT !.pc = "v_tx", !.pay = Some(pay)]
                     ELSE VDone(r.user, r.oid, r.ref, verdict))
                /\ orders' = IF verdict = "ok" THEN orders
                             ELSE [orders EXCEPT ![r.oid].status = "PAYMENT_FAILED"]
    /\ UNCHANGED <<product, cartItems, hist, adminOps>>

VerifyGateway(r) ==
    /\ r.pc = "v_gateway"
    /\ LET total == orders[r.oid].totalAmount
       IN \/ Goto(r, VDone(r.user, r.oid, r.ref, "500"))
          \/ Goto(r, VDone(r.user, r.oid, r.ref, "400_payment_not_found"))
          \/ \E pay \in GatewayPayments(Get(r.ref), total) :
                LET verdict == PaymentCheck(pay, Get(r.ref), total)
                IN Goto(r,
                     IF verdict = "ok" THEN [r EXCEPT !.pc = "v_tx", !.pay = Some(pay)]
                     ELSE VDone(r.user, r.oid, r.ref, verdict))
    /\ DbUnchanged

\* first statement of the transaction: the order is read again
VerifyTxBegin(r) ==
    /\ r.pc = "v_tx"
    /\ LET currentOrder == orders[r.oid]
       IN Goto(r,
            IF currentOrder.status = "ORDER_CONFIRMED"
            THEN VDone(r.user, r.oid, r.ref, "200_verified")
            ELSE IF currentOrder.status # "PAYMENT_PENDING"
            THEN VDone(r.user, r.oid, r.ref, "500")
            ELSE [r EXCEPT !.pc = "v_check", !.i = 1])
    /\ DbUnchanged

\* the same step, taking the item's quantity off the stock as soon as it was checked
VerifyTxCheckDecrementing(r) ==
    /\ r.pc = "v_check"
    /\ LET orderItem == orders[r.oid].items[r.i]
           enough == product[orderItem.productId].stock >= orderItem.quantity
       IN /\ Goto(r,
                IF ~enough THEN [r EXCEPT !.pc = "v_failed", !.i = 0]
                ELSE IF r.i < Len(orders[r.oid].items) THEN [r EXCEPT !.i = r.i + 1]
                ELSE [r EXCEPT !.pc = "v_commit", !.i = 0])
          /\ product' = IF enough
                         THEN [product EXCEPT ![orderItem.productId].stock = @ - orderItem.quantity]
                         ELSE product
    /\ UNCHANGED <<cartItems, orders, hist, adminOps>>

\* STEP 1, one order item: its product row is read and compared
VerifyTxCheck(r) ==
    /\ r.pc = "v_check"
    /\ LET orderItem == orders[r.oid].items[r.i]
       IN Goto(r,
            IF product[orderItem.productId].stock < orderItem.quantity
            THEN [r EXCEPT !.pc = "v_failed", !.i = 0]
            ELSE IF r.i < Len(orders[r.oid].items)
            THEN [r EXCEPT !.i = r.i + 1]
            ELSE [r EXCEPT !.pc = "v_commit", !.i = 0])
    /\ DbUnchanged

\* one unit taken off every ordered product, whatever the quantity
DecrementedByOne(items, p) == product[p].stock - (IF p \in ItemProducts(items) THEN 1 ELSE 0)

\* the stock a confirmation leaves on product p for the given order items
Decremented(items, p) == product[p].stock - QtyOf(items, p)

\* the whole cart of user u cleared
PurgedWholeCart(u, items) == {c \in cartItems : c.userId # u}

\* the cart rows a confirmation of an order of user u with these items leaves
Purged(u, items) == {c \in cartItems : ~(c.userId = u /\ c.productId \in ItemProducts(items))}

\* the same commit without the payment time
VerifyTxCommitNoPaidAt(r) ==
    /\ r.pc = "v_commit"
    /\ LET o == r.oid
           items == orders[o].items
       IN /\ product' = [p \in Products |-> [product[p] EXCEPT !.stock = Decremented(items, p)]]
          /\ orders' = [orders EXCEPT ![o].status = "ORDER_CONFIRMED",
                                      ![o].razorpayPaymentId = Some(r.payId),
                                      ![o].razorpaySignature = Some(r.sig)]
          /\ cartItems' = Purged(orders[o].userId, items)
          /\ hist' = [hist EXCEPT ![o].confirms = @ + 1]
          /\ Goto(r, VDone(r.user, o, r.ref, "200_verified"))
    /\ UNCHANGED <<adminOps>>

\* STEPS 2-4 and commit: decrement stock, confirm, delete the purchased cart rows
VerifyTxCommit(r) ==
    /\ r.pc = "v_commit"
    /\ LET o == r.oid
           items == orders[o].items
       IN /\ product' = [p \in Products |-> [product[p] EXCEPT !.stock = Decremented(items, p)]]
          /\ orders' = [orders EXCEPT ![o].status = "ORDER_CONFIRMED",
                                      ![o].razorpayPaymentId = Some(r.payId),
                                      ![o].razorpaySignature = Some(r.sig),
                                      ![o].paidAt = Some("now")]
          /\ cartItems' = Purged(orders[o].userId, items)
          /\ hist' = [hist EXCEPT ![o].confirms = @ + 1]
          /\ Goto(r, VDone(r.user, o, r.ref, "200_verified"))
    /\ UNCHANGED <<adminOps>>

\* after the rollback: the order is marked PAYMENT_FAILED outside the transaction
VerifyFailWrite(r) ==
    /\ r.pc = "v_failed"
    /\ /\ orders' = [orders EXCEPT ![r.oid].status = "PAYMENT_FAILED"]
          /\ Goto(r, VDone(r.user, r.oid, r.ref, "400_insufficient_stock"))
    /\ UNCHANGED <<product, cartItems, hist, adminOps>>


\* ------------------------------------- POST /api/orders/[orderId]/mark-failed
MarkFailedStart(u, o) ==
    /\ CanStart
    /\ LET order == orders[o]
       IN Begin(
            IF order.userId # u THEN Done("markFailed", u, o, "404")
            ELSE IF order.status # "PAYMENT_PENDING"
            THEN (IF order.status \in {"PAYMENT_FAILED", "ORDER_CONFIRMED"}
                  THEN Done("markFailed", u, o, "200_unchanged")
                  ELSE Done("markFailed", u, o, "400_status"))
            ELSE [NoReq EXCEPT !.kind = "markFailed", !.pc = "mf_write", !.user = u, !.oid = o])
    /\ DbUnchanged

MarkFailedWrite(r) ==
    /\ r.pc = "mf_write"
    /\ /\ orders' = [orders EXCEPT ![r.oid].status = "PAYMENT_FAILED"]
          /\ Goto(r, Done("markFailed", r.user, r.oid, "200"))
    /\ UNCHANGED <<product, cartItems, hist, adminOps>>

\* ------------------------- POST /api/orders/[orderId]/cancel (Prisma variant)
CancelStart(u, o) ==
    /\ CanStart
    /\ LET order == orders[o]
       IN Begin(
            IF order.userId # u THEN Done("cancel", u, o, "404")
            ELSE IF order.status # "PAYMENT_PENDING" /\ order.status # "PAYMENT_FAILED"
            THEN Done("cancel", u, o, "400_status")
            ELSE [NoReq EXCEPT !.kind = "cancel", !.pc = "cn_write", !.user = u, !.oid = o])
    /\ DbUnchanged

CancelWrite(r) ==
    /\ r.pc = "cn_write"
    /\ /\ orders' = [orders EXCEPT ![r.oid].status = "CANCELLED"]
          /\ Goto(r, Done("cancel", r.user, r.oid, "200"))
    /\ UNCHANGED <<product, cartItems, hist, adminOps>>

\* ----------------------- POST /api/orders/[orderId]/cancel (Supabase variant)
cancellableStatuses == {"PAYMENT_PENDING", "PAYMENT_FAILED", "ORDER_CONFIRMED"}

\* order lookup, status check, order items read
SbCancelStart(u, o) ==
    /\ CanStart
    /\ hist[o].restores < MaxRestore
    /\ LET order == orders[o]
       IN Begin(
            IF order.userId # u THEN Done("sbCancel", u, o, "404")
            ELSE IF order.status \notin cancellableStatuses
            THEN Done("sbCancel", u, o, "400_status")
            ELSE [NoReq EXCEPT !.kind = "sbCancel", !.pc = "sb_read", !.user = u, !.oid = o,
                               !.i = 1])
    /\ DbUnchanged

\* one order item: the product's stock is read
SbCancelRead(r) ==
    /\ r.pc = "sb_read"
    /\ LET orderItem == orders[r.oid].items[r.i]
       IN Goto(r, [r EXCEPT !.pc = "sb_write",
                                              !.readStock = product[orderItem.productId].stock])
    /\ DbUnchanged

\* one order item: the stock read before plus the quantity is written back
SbCancelWrite(r) ==
    /\ r.pc = "sb_write"
    /\ LET orderItem == orders[r.oid].items[r.i]
           newStock == r.readStock + orderItem.quantity
           last == r.i = Len(orders[r.oid].items)
       IN /\ product' = [product EXCEPT ![orderItem.productId].stock = newStock]
          /\ hist' = IF last THEN [hist EXCEPT ![r.oid].restores = @ + 1] ELSE hist
          /\ Goto(r,
                IF last THEN [r EXCEPT !.pc = "sb_status", !.i = 0, !.readStock = 0]
                ELSE [r EXCEPT !.pc = "sb_read", !.i = r.i + 1, !.readStock = 0])
    /\ UNCHANGED <<cartItems, orders, adminOps>>

SbCancelStatus(r) ==
    /\ r.pc = "sb_status"
    /\ /\ orders' = [orders EXCEPT ![r.oid].status = "CANCELLED"]
          /\ Goto(r, Done("sbCancel", r.user, r.oid, "200"))
    /\ UNCHANGED <<product, cartItems, hist, adminOps>>

\* ------------------------------------------------ POST /api/payments/create
PaymentCreateStart(u, o) ==
    /\ CanStart
    /\ LET order == orders[o]
       IN Begin(
            IF order.userId # u THEN Done("paymentCreate", u, o, "404")
            ELSE IF order.status # "PAYMENT_PENDING" /\ order.status # "PAYMENT_FAILED"
            THEN Done("paymentCreate", u, o, "400_status")
            ELSE IF order.status = "PAYMENT_FAILED"
            THEN [NoReq EXCEPT !.kind = "paymentCreate", !.pc = "pc_retry", !.user = u,
                               !.oid = o, !.ref = order.razorpayOrderId]
            ELSE IF order.razorpayOrderId # Null
            THEN Done("paymentCreate", u, o, "200_existing")
            ELSE IF order.totalAmount <= 0
            THEN Done("paymentCreate", u, o, "400_amount")
            ELSE [NoReq EXCEPT !.kind = "paymentCreate", !.pc = "pc_gateway", !.user = u,
                               !.oid = o])
    /\ DbUnchanged

\* a PAYMENT_FAILED order is put back to PAYMENT_PENDING for the retry
PaymentCreateRetry(r) ==
    /\ r.pc = "pc_retry"
    /\ /\ orders' = [orders EXCEPT ![r.oid].status = "PAYMENT_PENDING"]
          /\ Goto(r,
                IF r.ref # Null THEN Done("paymentCreate", r.user, r.oid, "200_existing")
                ELSE IF orders[r.oid].totalAmount <= 0
                THEN Done("paymentCreate", r.user, r.oid, "400_amount")
                ELSE [r EXCEPT !.pc = "pc_gateway"])
    /\ UNCHANGED <<product, cartItems, hist, adminOps>>

\* the gateway creates an intent and its reference is stored, or the call fails
PaymentCreateGateway(r) ==
    /\ r.pc = "pc_gateway"
    /\ \/ /\ orders' = [orders EXCEPT ![r.oid].razorpayOrderId = Some(NewIntent(r.oid))]
             /\ hist' = [hist EXCEPT ![r.oid].intents = @ + 1]
             /\ Goto(r, Done("paymentCreate", r.user, r.oid, "200"))
             /\ UNCHANGED <<product, cartItems, adminOps>>
          \/ /\ Goto(r, Done("paymentCreate", r.user, r.oid, "500"))
             /\ DbUnchanged

\* ------------------------------------- PATCH /api/admin/orders/[orderId]
allowedStatuses == {"SHIPPED", "DELIVERED", "CANCELLED"}

TransitionAllowed(newStatus, status) ==
    IF newStatus = "SHIPPED" THEN status = "ORDER_CONFIRMED"
    ELSE IF newStatus = "DELIVERED" THEN status = "SHIPPED"
    ELSE status = "ORDER_CONFIRMED" \/ status = "SHIPPED"

AdminOrderStart(o, newStatus) ==
    /\ CanStart
    /\ newStatus = "CANCELLED" => hist[o].restores < MaxRestore
    /\ LET order == orders[o]
       IN Begin(
            IF ~TransitionAllowed(newStatus, order.status)
            THEN Done("adminOrder", "u1", o, "400_transition")
            ELSE [NoReq EXCEPT !.kind = "adminOrder", !.pc = "ao_tx", !.oid = o,
                               !.snapStatus = order.status, !.newStatus = newStatus])
    /\ DbUnchanged

\* the transaction: restore stock when cancelling, then write the status
AdminOrderTx(r) ==
    /\ r.pc = "ao_tx"
    /\ LET items == orders[r.oid].items
           restore == r.newStatus = "CANCELLED" /\ r.snapStatus \in {"ORDER_CONFIRMED", "SHIPPED"}
       IN /\ product' = IF restore
                        THEN [p \in Products |->
                                [product[p] EXCEPT !.stock = @ + QtyOf(items, p)]]
                        ELSE product
          /\ hist' = IF restore THEN [hist EXCEPT ![r.oid].restores = @ + 1] ELSE hist
          /\ orders' = [orders EXCEPT ![r.oid].status = r.newStatus]
          /\ Goto(r, Done("adminOrder", "u1", r.oid, "200"))
    /\ UNCHANGED <<cartItems, adminOps>>

\* ------------------------------------------ admin product routes
\* PATCH /api/admin/products/:id with the validated fields of the body
NoUpdate == [name |-> Null, stock |-> Null, price |-> Null, discountPercent |-> Null,
             isActive |-> Null]

UpdateData ==
    {[NoUpdate EXCEPT !.stock = Some(n)] : n \in {0, MaxStock}}
    \cup {[NoUpdate EXCEPT !.price = Some(n), !.discountPercent = Some(d)] :
              n \in Prices, d \in Discounts}
    \cup {[NoUpdate EXCEPT !.name = Some(n)] : n \in NewNames}

ApplyUpdate(row, data) ==
    [name |-> IF data.name = Null THEN row.name ELSE Get(data.name),
     stock |-> IF data.stock = Null THEN row.stock ELSE Get(data.stock),
     price |-> IF data.price = Null THEN row.price ELSE Get(data.price),
     discountPercent |-> IF data.discountPercent = Null THEN row.discountPercent
                         ELSE Get(data.discountPercent),
     isActive |-> IF data.isActive = Null THEN row.isActive ELSE Get(data.isActive)]

\* the same update, also rewriting the name snapshot of the order items of the product
AdminPatchProductRenamingItems(p, data) ==
    /\ adminOps < MaxAdminOps
    /\ \E f \in {"name", "stock", "price", "discountPercent", "isActive"} : data[f] # Null
    /\ product' = [product EXCEPT ![p] = ApplyUpdate(product[p], data)]
    /\ orders' = [o \in 1..Len(orders) |->
                    LET items == orders[o].items
                    IN [orders[o] EXCEPT !.items =
                          [k \in 1..Len(items) |->
                             IF items[k].productId = p
                             THEN [items[k] EXCEPT !.productName = product'[p].name]
                             ELSE items[k]]]]
    /\ adminOps' = adminOps + 1
    /\ resp' = [NoResp EXCEPT !.kind = "adminProduct", !.code = "200"]
    /\ UNCHANGED <<cartItems, req, hist>>

AdminPatchProduct(p, data) ==
    /\ adminOps < MaxAdminOps
    /\ \E f \in {"name", "stock", "price", "discountPercent", "isActive"} : data[f] # Null
    /\ product' = [product EXCEPT ![p] = ApplyUpdate(product[p], data)]
    /\ adminOps' = adminOps + 1
    /\ resp' = [NoResp EXCEPT !.kind = "adminProduct", !.code = "200"]
    /\ UNCHANGED <<cartItems, orders, req, hist>>

\* DELETE /api/admin/products/:id: soft delete
AdminDeleteProduct(p) ==
    /\ adminOps < MaxAdminOps
    /\ product' = [product EXCEPT ![p].isActive = FALSE]
    /\ adminOps' = adminOps + 1
    /\ resp' = [NoResp EXCEPT !.kind = "adminProduct", !.code = "200"]
    /\ UNCHANGED <<cartItems, orders, req, hist>>

\* ---------------------------------------------------------- specification
Next ==
    \/ \E u \in Users, sel \in (SUBSET AllCartItemIds) \ {{}} :
          CreateOrderStart(u, sel)
    \/ \E r \in InFlight : CreateOrderProducts(r)
    \/ \E r \in InFlight : CreateOrderTx(r)
    \/ \E r \in InFlight : CreateOrderGateway(r)
    \/ \E u \in Users, o \in OrderIds, payId \in PaymentIds :
          \E ref \in ClaimableRefs(o) : \E sig \in {Sign(ref, payId), Forged} :
             VerifyStart(u, o, ref, payId, sig)
    \/ \E r \in InFlight : VerifyGateway(r)
    \/ \E r \in InFlight : VerifyTxBegin(r)
    \/ \E r \in InFlight : VerifyTxCheck(r)
    \/ \E r \in InFlight : VerifyTxCommit(r)
    \/ \E r \in InFlight : VerifyFailWrite(r)
    \/ \E u \in Users, o \in OrderIds : MarkFailedStart(u, o)
    \/ \E r \in InFlight : MarkFailedWrite(r)
    \/ \E u \in Users, o \in OrderIds : CancelStart(u, o)
    \/ \E r \in InFlight : CancelWrite(r)
    \/ \E u \in Users, o \in OrderIds : SbCancelStart(u, o)
    \/ \E r \in InFlight : SbCancelRead(r)
    \/ \E r \in InFlight : SbCancelWrite(r)
    \/ \E r \in InFlight : SbCancelStatus(r)
    \/ \E u \in Users, o \in OrderIds : PaymentCreateStart(u, o)
    \/ \E r \in InFlight : PaymentCreateRetry(r)
    \/ \E r \in InFlight : PaymentCreateGateway(r)
    \/ \E o \in OrderIds, st \in allowedStatuses : AdminOrderStart(o, st)
    \/ \E r \in InFlight : AdminOrderTx(r)
    \/ \E p \in Products, data \in UpdateData : AdminPatchProduct(p, data)
    \/ \E p \in Products : AdminDeleteProduct(p)

Spec == Init /\ [][Next]_vars

\* ------------------------------------------- one request at a time
\* the same handlers when a request arrives only after the previous one was answered
NextSeq ==
    \/ /\ req = EmptyBag
       /\ \E u \in Users, sel \in (SUBSET AllCartItemIds) \ {{}} : CreateOrderStart(u, sel)
    \/ \E r \in InFlight : CreateOrderProducts(r)
    \/ \E r \in InFlight : CreateOrderTx(r)
    \/ \E r \in InFlight : CreateOrderGateway(r)
    \/ /\ req = EmptyBag
       /\ \E u \in Users, o \in OrderIds, payId \in PaymentIds :
             \E ref \in ClaimableRefs(o) : \E sig \in {Sign(ref, payId), Forged} :
                VerifyStart(u, o, ref, payId, sig)
    \/ \E r \in InFlight : VerifyGateway(r)
    \/ \E r \in InFlight : VerifyTxBegin(r)
    \/ \E r \in InFlight : VerifyTxCheck(r)
    \/ \E r \in InFlight : VerifyTxCommit(r)
    \/ \E r \in InFlight : VerifyFailWrite(r)
    \/ /\ req = EmptyBag
       /\ \E u \in Users, o \in OrderIds : MarkFailedStart(u, o)
    \/ \E r \in InFlight : MarkFailedWrite(r)
    \/ /\ req = EmptyBag
       /\ \E u \in Users, o \in OrderIds : CancelStart(u, o)
    \/ \E r \in InFlight : CancelWrite(r)
    \/ /\ req = EmptyBag
       /\ \E u \in Users, o \in OrderIds : SbCancelStart(u, o)
    \/ \E r \in InFlight : SbCancelRead(r)
    \/ \E r \in InFlight : SbCancelWrite(r)
    \/ \E r \in InFlight : SbCancelStatus(r)
    \/ /\ req = EmptyBag
       /\ \E u \in Users, o \in OrderIds : PaymentCreateStart(u, o)
    \/ \E r \in InFlight : PaymentCreateRetry(r)
    \/ \E r \in InFlight : PaymentCreateGateway(r)
    \/ /\ req = EmptyBag
       /\ \E o \in OrderIds, st \in allowedStatuses : AdminOrderStart(o, st)
    \/ \E r \in InFlight : AdminOrderTx(r)
    \/ /\ req = EmptyBag
       /\ \E p \in Products, data \in UpdateData : AdminPatchProduct(p, data)
    \/ /\ req = EmptyBag
       /\ \E p \in Products : AdminDeleteProduct(p)

SpecSeq == Init /\ [][NextSeq]_vars

\* ------------------------- verifications of one pending order, racing
\* u1 has ordered one unit of p1, the last one in stock; the payment intent exists
RaceItems == <<[productId |-> "p1", productName |-> "Rice", quantity |-> 1, unitPrice |-> 100,
                discountPercent |-> Null, finalPrice |-> 100]>>

RaceRef == <<1, 1>>

InitRace ==
    /\ product = [p \in Products |->
                    IF p = "p1"
                    THEN [name |-> "Rice", price |-> 100, discountPercent |-> Null, stock |-> 1,
                          isActive |-> TRUE]
                    ELSE [name |-> "Honey", price |-> 250, discountPercent |-> Some(10),
                          stock |-> 2, isActive |-> TRUE]]
    /\ cartItems = {[id |-> 1, userId |-> "u1", productId |-> "p1", quantity |-> 1],
                    [id |-> 2, userId |-> "u1", productId |-> "p2", quantity |-> 2],
                    [id |-> 3, userId |-> "u2", productId |-> "p1", quantity |-> 1]}
    /\ orders = <<[NewOrder("u1", RaceItems) EXCEPT !.razorpayOrderId = Some(RaceRef)]>>
    /\ req = EmptyBag
    /\ hist = <<[NoHist EXCEPT !.intents = 1]>>
    /\ adminOps = 0
    /\ resp = NoResp

\* verification requests only, MaxInFlight of them in flight together
NextRace ==
    \/ \E u \in Users, o \in OrderIds, payId \in PaymentIds :
          \E ref \in ClaimableRefs(o) : \E sig \in {Sign(ref, payId), Forged} :
             VerifyStart(u, o, ref, payId, sig)
    \/ \E r \in InFlight : VerifyGateway(r)
    \/ \E r \in InFlight : VerifyTxBegin(r)
    \/ \E r \in InFlight : VerifyTxCheck(r)
    \/ \E r \in InFlight : VerifyTxCommit(r)
    \/ \E r \in InFlight : VerifyFailWrite(r)

SpecRace == InitRace /\ [][NextRace]_vars

\* ------------------------------------------------ POST /api/cart/merge
Min(a, b) == IF a <= b THEN a ELSE b

\* the items a merge body is made of; quantity 100 fails the 1..99 validation
MergeItems == {[productId |-> "p1", quantity |-> 49], [productId |-> "p1", quantity |-> 50],
               [productId |-> "p2", quantity |-> 50], [productId |-> "p2", quantity |-> 100]}

MergeLists == UNION {[1..n -> MergeItems] : n \in 1..MaxMergeLen}

\* quantity validated, product found active with stock
MergeItemAccepted(it) ==
    /\ it.quantity \in 1..99
    /\ product[it.productId].isActive
    /\ product[it.productId].stock > 0

\* items.find(...) on the rows of a cart read: for each product in the cart one of its
\* rows (the first in the order the rows came back, which the query does not fix)
ExistingChoices(snap) ==
    {f \in [{c.productId : c \in snap} -> snap] : \A p \in DOMAIN f : f[p].productId = p}

NextCartItemId(rows) ==
    IF rows = {} THEN 1 ELSE 1 + (CHOOSE n \in {c.id : c \in rows} : \A c \in rows : c.id <= n)

\* the quantity written without the cap
MergedQuantityUncapped(e, q) == e + q

\* the quantity written to an item that was found in the cart
MergedQuantity(e, q) == Min(e + q, 99)

\* the rows after the writes of the merge loop: an item found in the cart read is set
\* to the merged quantity computed from that read, any other item is inserted
RECURSIVE MergeWrites(_, _, _, _)
MergeWrites(rows, u, existing, items) ==
    IF items = <<>> THEN rows
    ELSE LET it == Head(items)
             p == it.productId
             next ==
                IF ~MergeItemAccepted(it) THEN rows
                ELSE IF p \in DOMAIN existing
                THEN {IF c.id = existing[p].id
                      THEN [c EXCEPT !.quantity = MergedQuantity(existing[p].quantity,
                                                                 it.quantity)]
                      ELSE c : c \in rows}
                ELSE rows \cup {[id |-> NextCartItemId(rows), userId |-> u, productId |-> p,
                                 quantity |-> it.quantity]}
         IN MergeWrites(next, u, existing, Tail(items))

\* the items the loop inserts
MergeCreates(existing, items) ==
    SelectSeq(items, LAMBDA it : MergeItemAccepted(it) /\ it.productId \notin DOMAIN existing)

\* an insert for a product that already has a row in the cart, or that the same loop
\* has inserted before
MergeCreatesDuplicate(u, existing, items) ==
    LET cr == MergeCreates(existing, items)
    IN \E k \in 1..Len(cr) :
          \/ \E c \in CartOf(u) : c.productId = cr[k].productId
          \/ \E j \in 1..(k - 1) : cr[j].productId = cr[k].productId

\* body parsed, the caller's cart found
MergeStart(u, items) ==
    /\ CanStart
    /\ Begin([NoReq EXCEPT !.kind = "merge", !.pc = "mg_read", !.user = u, !.items = items])
    /\ DbUnchanged

\* the transaction re-reads the cart with its items
MergeTxRead(r) ==
    /\ r.pc = "mg_read"
    /\ Goto(r, [r EXCEPT !.pc = "mg_commit", !.snap = CartOf(r.user)])
    /\ DbUnchanged

\* the loop's writes become visible at commit; an insert of a second row for a product
\* of the cart either goes through or, if the table has a unique index on (cartId,
\* productId), aborts the transaction
MergeTxCommit(r) ==
    /\ r.pc = "mg_commit"
    /\ \E existing \in ExistingChoices(r.snap) :
          \/ /\ cartItems' = MergeWrites(cartItems, r.user, existing, r.items)
             /\ Goto(r, Done("merge", r.user, 0, "200"))
             /\ UNCHANGED <<product, orders, hist, adminOps>>
          \/ /\ MergeCreatesDuplicate(r.user, existing, r.items)
             /\ Goto(r, Done("merge", r.user, 0, "500"))
             /\ DbUnchanged

\* ------------------------------------------------ POST /api/cart/items
AddQtys == {50}

\* product and cart read, stock checks, the quantity to write computed
AddItemStart(u, p, q) ==
    /\ CanStart
    /\ LET row == product[p]
           found == {c \in CartOf(u) : c.productId = p}
       IN IF ~(row.isActive /\ row.stock > 0)
          THEN Begin(Done("addItem", u, 0, "400_unavailable"))
          ELSE IF found # {}
          THEN \E e \in found :
                  Begin(IF e.quantity + q > row.stock
                        THEN Done("addItem", u, 0, "400_stock")
                        ELSE [NoReq EXCEPT !.kind = "addItem", !.pc = "add_write", !.user = u,
                                           !.snap = {e},
                                           !.items = <<[productId |-> p,
                                                        quantity |-> Min(Min(e.quantity + q, 99),
                                                                         row.stock)]>>])
          ELSE Begin(IF q > row.stock
                     THEN Done("addItem", u, 0, "400_stock")
                     ELSE [NoReq EXCEPT !.kind = "addItem", !.pc = "add_write", !.user = u,
                                        !.items = <<[productId |-> p,
                                                     quantity |-> Min(q, row.stock)]>>])
    /\ DbUnchanged

\* the item found is updated to the computed quantity, or a new item is inserted
AddItemWrite(r) ==
    /\ r.pc = "add_write"
    /\ LET it == r.items[1]
       IN IF r.snap # {}
          THEN /\ cartItems' = {IF c.id \in {e.id : e \in r.snap}
                                THEN [c EXCEPT !.quantity = it.quantity] ELSE c : c \in cartItems}
               /\ Goto(r, Done("addItem", r.user, 0, "200"))
               /\ UNCHANGED <<product, orders, hist, adminOps>>
          ELSE \/ /\ cartItems' = cartItems \cup {[id |-> NextCartItemId(cartItems),
                                                   userId |-> r.user,
                                                   productId |-> it.productId,
                                                   quantity |-> it.quantity]}
                  /\ Goto(r, Done("addItem", r.user, 0, "200"))
                  /\ UNCHANGED <<product, orders, hist, adminOps>>
               \/ /\ \E c \in CartOf(r.user) : c.productId = it.productId
                  /\ Goto(r, Done("addItem", r.user, 0, "500"))
                  /\ DbUnchanged

\* ------------------------------------------- carts: merges and additions
\* u1's cart holds one unit of p1 and no p2; both products can be bought
InitCart ==
    /\ product = [p \in Products |->
                    IF p = "p1"
                    THEN [name |-> "Rice", price |-> 100, discountPercent |-> Null,
                          stock |-> 100, isActive |-> TRUE]
                    ELSE [name |-> "Honey", price |-> 250, discountPercent |-> Some(10),
                          stock |-> 100, isActive |-> TRUE]]
    /\ cartItems = {[id |-> 1, userId |-> "u1", productId |-> "p1", quantity |-> 1],
                    [id |-> 2, userId |-> "u2", productId |-> "p1", quantity |-> 1]}
    /\ orders = <<>>
    /\ req = EmptyBag
    /\ hist = <<>>
    /\ adminOps = 0
    /\ resp = NoResp

\* cart requests run one at a time
NextCartSeq ==
    \/ /\ req = EmptyBag
       /\ \E u \in Users, items \in MergeLists : MergeStart(u, items)
    \/ \E r \in InFlight : MergeTxRead(r)
    \/ \E r \in InFlight : MergeTxCommit(r)
    \/ /\ req = EmptyBag
       /\ \E u \in Users, p \in Products, q \in AddQtys : AddItemStart(u, p, q)
    \/ \E r \in InFlight : AddItemWrite(r)

SpecCartSeq == InitCart /\ [][NextCartSeq]_vars

\* merges of one item by one user, MaxInFlight of them in flight together
NextMerge ==
    \/ \E it \in MergeItems : MergeStart("u1", <<it>>)
    \/ \E r \in InFlight : MergeTxRead(r)
    \/ \E r \in InFlight : MergeTxCommit(r)

SpecMerge == InitCart /\ [][NextMerge]_vars

\* ------------------------------------- order creation over prices and discounts
PriceCases == {1, 15, 100, 10000}
DiscountCases == {Null, Some(0), Some(10), Some(34), Some(90), Some(100)}
QuantityCases == {1, 2, 99}

\* p1 has any of the prices and discounts, u1 has any of the quantities of it in the cart
InitPrice ==
    /\ \E price \in PriceCases, discount \in DiscountCases :
          product = [p \in Products |->
                       IF p = "p1"
                       THEN [name |-> "Rice", price |-> price, discountPercent |-> discount,
                             stock |-> 99, isActive |-> TRUE]
                       ELSE [name |-> "Honey", price |-> 250, discountPercent |-> Some(10),
                             stock |-> 2, isActive |-> TRUE]]
    /\ \E quantity \in QuantityCases :
          cartItems = {[id |-> 1, userId |-> "u1", productId |-> "p1", quantity |-> quantity],
                       [id |-> 2, userId |-> "u1", productId |-> "p2", quantity |-> 2],
                       [id |-> 3, userId |-> "u2", productId |-> "p1", quantity |-> 1]}
    /\ orders = <<>>
    /\ req = EmptyBag
    /\ hist = <<>>
    /\ adminOps = 0
    /\ resp = NoResp

\* order creation only, one request at a time
NextPrice ==
    \/ /\ req = EmptyBag
       /\ \E u \in Users, sel \in (SUBSET AllCartItemIds) \ {{}} : CreateOrderStart(u, sel)
    \/ \E r \in InFlight : CreateOrderProducts(r)
    \/ \E r \in InFlight : CreateOrderTx(r)
    \/ \E r \in InFlight : CreateOrderGateway(r)

SpecPrice == InitPrice /\ [][NextPrice]_vars

\* ================================================================ claims

\* C1: in every reachable state every product's stock is >= 0, whatever the
\* interleaving of order creation, verification, cancellation and admin stock edits
StockNeverNegative == \A p \in Products : product[p].stock >= 0

\* C2: two concurrent verifications of the same pending order (one item, quantity 1,
\* stock 1): once a confirmation was committed the stock is 0 and stays 0, the order is
\* confirmed exactly once, and when both requests were answered it is ORDER_CONFIRMED
RaceConfirmsOnce ==
    hist[1].confirms >= 1 =>
        /\ product["p1"].stock = 0
        /\ hist[1].confirms = 1
        /\ req = EmptyBag => orders[1].status = "ORDER_CONFIRMED"

\* C3: for every order the PAYMENT_PENDING -> ORDER_CONFIRMED transition, with its
\* stock decrement, is committed at most once
ConfirmedAtMostOnce == \A o \in OrderIds : hist[o].confirms <= 1

\* request r takes this step
Steps(r) == r \in InFlight /\ CopiesIn(r, req') < CopiesIn(r, req)

\* request r arrives with this step and stays in flight
Arrives(r) == BagCardinality(req') > BagCardinality(req) /\ CopiesIn(r, req') > CopiesIn(r, req)

\* a verification request of the order's owner, claiming the stored gateway order id,
\* arrives while the order is ORDER_CONFIRMED
VerifyArrivesOnConfirmed ==
    \/ /\ req' = req
       /\ resp'.kind = "verify"
       /\ resp'.oid \in OrderIds
       /\ orders[resp'.oid].userId = resp'.user
       /\ orders[resp'.oid].razorpayOrderId = resp'.ref
       /\ orders[resp'.oid].status = "ORDER_CONFIRMED"
    \/ \E r \in BagToSet(req') :
          /\ Arrives(r)
          /\ r.kind = "verify"
          /\ orders[r.oid].status = "ORDER_CONFIRMED"

\* C4: with requests handled one after the other, an order is confirmed (stock
\* decremented, cart purged) at most once, and a verification by the owner with the
\* stored gateway order id on an order already ORDER_CONFIRMED is answered at once with
\* the idempotent success and leaves orders, stock and cart rows unchanged
SecondVerifyIsIdempotent ==
    /\ [](\A o \in OrderIds : hist[o].confirms <= 1)
    /\ [][VerifyArrivesOnConfirmed =>
            /\ resp'.kind = "verify"
            /\ resp'.code = "200_already_confirmed"
            /\ req' = req
            /\ UNCHANGED <<product, cartItems, orders, hist>>]_vars

\* a second verification was answered "already confirmed" after the one confirmation
SecondVerifyAnswered ==
    /\ resp.kind = "verify"
    /\ resp.code = "200_already_confirmed"
    /\ req = EmptyBag
    /\ hist[resp.oid].confirms = 1
    /\ orders[resp.oid].status = "ORDER_CONFIRMED"
    /\ \A p \in ItemProducts(orders[resp.oid].items) : product[p].stock = 0

\* the gateway payment a verification holds passed the captured / order id / amount checks
PaymentAccepted(r) ==
    /\ r.pay # Null
    /\ Get(r.pay).status = "captured"
    /\ Some(Get(r.pay).order_id) = r.ref
    /\ Get(r.pay).amount = orders[r.oid].totalAmount

\* C5: an order becomes ORDER_CONFIRMED only by the commit step of a verification
\* request; every verification in flight is by the order's owner, claimed the gateway
\* order id stored on the order when it arrived and carries a valid signature over
\* (gateway order id, payment id); every verification past the gateway call holds a
\* payment that is captured, for the same gateway order id, of exactly totalAmount
ConfirmedOnlyByCheckedVerify ==
    /\ [](\A r \in InFlight : r.kind = "verify" =>
            /\ r.user = orders[r.oid].userId
            /\ r.ref # Null
            /\ verifyRazorpaySignature(Get(r.ref), r.payId, r.sig)
            /\ r.pc # "v_gateway" => PaymentAccepted(r))
    /\ [][\A r \in BagToSet(req') : Arrives(r) /\ r.kind = "verify" =>
                /\ r.pc = "v_gateway"
                /\ orders[r.oid].razorpayOrderId = r.ref
                /\ orders[r.oid].status = "PAYMENT_PENDING"]_vars
    /\ [][\A o \in OrderIds :
            orders[o].status # "ORDER_CONFIRMED" /\ orders'[o].status = "ORDER_CONFIRMED" =>
                \E r \in InFlight :
                    Steps(r) /\ r.kind = "verify" /\ r.oid = o /\ r.pc = "v_commit"]_vars

\* an order was confirmed and its owner's verification answered
ConfirmedByVerify ==
    /\ resp.kind = "verify"
    /\ resp.code = "200_verified"
    /\ orders[resp.oid].status = "ORDER_CONFIRMED"
    /\ orders[resp.oid].userId = resp.user
    /\ orders[resp.oid].razorpayOrderId = resp.ref
    /\ hist[resp.oid].confirms = 1

\* C6: when the stock re-validation of a confirmation finds stock < quantity for an
\* item, the transaction writes nothing (the checks of the items before it wrote
\* nothing either), the request goes on to mark the order, and that step sets the
\* status PAYMENT_FAILED and changes no product's stock and no cart row
FailedRevalidationOnlyMarksOrder ==
    [][\A r \in InFlight : Steps(r) /\ r.kind = "verify" =>
          /\ r.pc = "v_check" =>
                /\ UNCHANGED <<product, cartItems, orders, hist>>
                /\ LET orderItem == orders[r.oid].items[r.i]
                       failed == [r EXCEPT !.pc = "v_failed", !.i = 0]
                   IN (product[orderItem.productId].stock < orderItem.quantity) <=>
                          CopiesIn(failed, req') > CopiesIn(failed, req)
          /\ r.pc = "v_failed" =>
                /\ orders'[r.oid].status = "PAYMENT_FAILED"
                /\ resp'.code = "400_insufficient_stock"
                /\ UNCHANGED <<product, cartItems, hist>>]_vars

\* the second item of a two-item order failed re-validation after the first had passed:
\* the order is PAYMENT_FAILED, the first product's stock and the cart are as before
SecondItemFailedRevalidation ==
    /\ resp.kind = "verify"
    /\ resp.code = "400_insufficient_stock"
    /\ orders[resp.oid].status = "PAYMENT_FAILED"
    /\ Len(orders[resp.oid].items) = 2
    /\ product[orders[resp.oid].items[1].productId].stock
          >= orders[resp.oid].items[1].quantity
    /\ product[orders[resp.oid].items[2].productId].stock
          < orders[resp.oid].items[2].quantity
    /\ hist[resp.oid].confirms = 0
    /\ Cardinality(cartItems) = 3

\* the answers of a verification rejected before its transaction
PreTxRejections == {"400_ref_mismatch", "400_signature", "400_payment_not_found",
                    "400_not_captured", "400_payment_order_mismatch",
                    "400_amount_mismatch", "500"}

\* C7: a verification rejected by a check made before the transaction (gateway order
\* id, signature, payment missing / not captured / for another order / of another
\* amount, gateway failure) has written nothing: neither its arrival, nor its gateway
\* step, nor the step that answers the rejection changes an order, a stock or a cart row
RejectedVerifyWritesNothing ==
    [][(\/ resp'.kind = "verify" /\ resp'.code \in PreTxRejections
        \/ \E r \in InFlight : Steps(r) /\ r.kind = "verify" /\ r.pc = "v_gateway"
        \/ \E r \in BagToSet(req') : Arrives(r) /\ r.kind = "verify")
          => UNCHANGED <<product, cartItems, orders, hist>>]_vars

\* a verification was rejected for the amount and the order is still PAYMENT_PENDING
AmountMismatchRejected ==
    /\ resp.kind = "verify"
    /\ resp.code = "400_amount_mismatch"
    /\ orders[resp.oid].status = "PAYMENT_PENDING"
    /\ hist[resp.oid].confirms = 0
    /\ Cardinality(cartItems) = 3

\* C8: the commit of a confirmation is one step in which every product's stock goes
\* down by exactly the quantity ordered of it, the status becomes ORDER_CONFIRMED and
\* the payment id, the signature and paidAt are stored; no other step of a
\* verification changes a stock or confirms the order
CommitIsOneStep ==
    [][\A r \in InFlight : Steps(r) /\ r.kind = "verify" =>
          IF r.pc = "v_commit"
          THEN /\ \A p \in Products :
                     product'[p] = [product[p] EXCEPT
                                       !.stock = @ - QtyOf(orders[r.oid].items, p)]
               /\ orders'[r.oid].status = "ORDER_CONFIRMED"
               /\ orders'[r.oid].razorpayPaymentId = Some(r.payId)
               /\ orders'[r.oid].razorpaySignature = Some(r.sig)
               /\ orders'[r.oid].paidAt # Null
          ELSE /\ product' = product
               /\ orders'[r.oid].status = "ORDER_CONFIRMED" => orders' = orders]_vars

\* a two-item order (1 x p1, 2 x p2) was confirmed once and took all the stock
TwoItemOrderConfirmed ==
    /\ resp.kind = "verify"
    /\ resp.code = "200_verified"
    /\ Len(orders[resp.oid].items) = 2
    /\ orders[resp.oid].status = "ORDER_CONFIRMED"
    /\ orders[resp.oid].razorpayPaymentId = Some("pay_1")
    /\ orders[resp.oid].paidAt # Null
    /\ hist[resp.oid] = [NoHist EXCEPT !.confirms = 1, !.intents = 1]
    /\ adminOps = 0
    /\ product["p1"].stock = 0
    /\ product["p2"].stock = 0

\* C9: the commit of a confirmation deletes exactly the cart rows of the order's owner
\* whose product is among the order's items and leaves every other row as it is; no
\* other step (a cancellation by the user or by an admin in particular) deletes or
\* changes a cart row
OnlyPurchasedCartRowsDeleted ==
    [][/\ \A r \in InFlight : Steps(r) /\ r.kind = "verify" /\ r.pc = "v_commit" =>
             cartItems' = {c \in cartItems :
                              \/ c.userId # orders[r.oid].userId
                              \/ c.productId \notin ItemProducts(orders[r.oid].items)}
       /\ cartItems' # cartItems =>
             \E r \in InFlight : Steps(r) /\ r.kind = "verify" /\ r.pc = "v_commit"
       /\ \A r \in InFlight : Steps(r) /\ r.kind \in {"cancel", "sbCancel", "adminOrder"} =>
             cartItems' = cartItems]_vars

\* u1's order of p1 alone was confirmed and then cancelled: u1's row for p2 and u2's
\* row for p1 are still in the carts
OtherCartRowsKept ==
    /\ Len(orders) = 1
    /\ orders[1].userId = "u1"
    /\ ItemProducts(orders[1].items) = {"p1"}
    /\ hist[1].confirms = 1
    /\ orders[1].status = "CANCELLED"
    /\ cartItems = {[id |-> 2, userId |-> "u1", productId |-> "p2", quantity |-> 2],
                    [id |-> 3, userId |-> "u2", productId |-> "p1", quantity |-> 1]}

\* C10: every order's totalAmount is the sum of its items' finalPrice and every item's
\* finalPrice is unitPrice * quantity; the unit price and discount of an inserted item
\* are those of the product row as it is when the creation transaction runs
TotalsFromTransactionPrices ==
    /\ [](\A o \in OrderIds :
            /\ orders[o].totalAmount = SumFinal(orders[o].items)
            /\ \A k \in 1..Len(orders[o].items) :
                  orders[o].items[k].finalPrice
                     = orders[o].items[k].unitPrice * orders[o].items[k].quantity)
    /\ [][Len(orders') > Len(orders) =>
            LET new == orders'[Len(orders')]
            IN \A k \in 1..Len(new.items) :
                  LET row == product[new.items[k].productId]
                  IN /\ new.items[k].unitPrice
                          = calculateDiscountedPrice(row.price, row.discountPercent)
                     /\ new.items[k].discountPercent = row.discountPercent]_vars

\* an order of p1 and p2 was created after p2's price and discount had been edited:
\* p2 is priced 0 (100 % off) and the total is p1's price alone
OrderPricedAfterEdit ==
    /\ Len(orders) = 1
    /\ Len(orders[1].items) = 2
    /\ orders[1].items[2].productId = "p2"
    /\ orders[1].items[2].unitPrice = 0
    /\ orders[1].totalAmount = 100

CreateRejections == {"400_invalid_ids", "400_no_items", "400_quantity", "400_unavailable",
                     "400_product_not_found", "400_insufficient_stock"}

RejectedCreation ==
    /\ resp'.kind = "createOrder"
    /\ resp'.code \in CreateRejections
    /\ UNCHANGED <<product, cartItems, orders, hist>>

\* an order creation request arrives with this step (answered at once or kept in flight)
CreationArrives ==
    \/ resp'.kind = "createOrder" /\ req' = req
    \/ \E r \in BagToSet(req') : Arrives(r) /\ r.kind = "createOrder"

\* C12: an order creation is rejected with a client error, and inserts nothing, when
\* a selected id is not a row of the caller's cart, when a selected row's quantity is
\* outside 1..99, when a selected product is inactive at the read before the
\* transaction or at the transaction's read, or when a product's stock is below the
\* selected quantity at the transaction's read; every rejection leaves the orders alone
RejectedCreationInsertsNothing ==
    [][/\ CreationArrives =>
             \A u \in Users, sel \in (SUBSET AllCartItemIds) \ {{}} :
                /\ \/ sel \ {c.id : c \in CartOf(u)} # {}
                   \/ \E c \in CartOf(u) : c.id \in sel /\ c.quantity \notin 1..99
                /\ CreateOrderStart(u, sel)
                => RejectedCreation /\ req' = req
       /\ \A r \in InFlight :
             /\ CreateOrderProducts(r)
             /\ \E k \in 1..Len(r.items) : ~product[r.items[k].productId].isActive
             => RejectedCreation
       /\ \A r \in InFlight :
             /\ CreateOrderTx(r)
             /\ \E k \in 1..Len(r.items) :
                   \/ ~product[r.items[k].productId].isActive
                   \/ product[r.items[k].productId].stock < r.items[k].quantity
             => RejectedCreation
       /\ (resp'.kind = "createOrder" /\ resp'.code \in CreateRejections) =>
             UNCHANGED <<product, cartItems, orders, hist>>]_vars

\* a creation was rejected for stock inside its transaction; no order exists
CreationRejectedForStock ==
    /\ resp.kind = "createOrder"
    /\ resp.code = "400_insufficient_stock"
    /\ orders = <<>>
    /\ Cardinality(cartItems) = 3

\* C13: an order becomes CANCELLED only from PAYMENT_PENDING, PAYMENT_FAILED or
\* ORDER_CONFIRMED; a request to cancel a SHIPPED or DELIVERED order changes neither
\* its status nor any stock
CancelledOnlyBeforeShipping ==
    [][\A o \in OrderIds :
          /\ (orders[o].status # "CANCELLED" /\ orders'[o].status = "CANCELLED") =>
                orders[o].status \in {"PAYMENT_PENDING", "PAYMENT_FAILED", "ORDER_CONFIRMED"}
          /\ orders[o].status \in {"SHIPPED", "DELIVERED"} =>
                (\A r \in InFlight : Steps(r) /\ r.oid = o /\ r.newStatus = "CANCELLED" =>
                    UNCHANGED <<product, orders>>)]_vars

\* C14: once an order is DELIVERED or CANCELLED no step changes its status
TerminalStatusesStay ==
    [][\A o \in OrderIds :
          orders[o].status \in {"DELIVERED", "CANCELLED"} =>
              orders'[o].status = orders[o].status]_vars

\* C15: the step that takes an order from ORDER_CONFIRMED to CANCELLED also adds, to
\* every product, exactly the quantity ordered of it
CancelOfConfirmedRestoresInOneStep ==
    [][\A o \in OrderIds :
          (orders[o].status = "ORDER_CONFIRMED" /\ orders'[o].status = "CANCELLED") =>
              \A p \in Products :
                  product'[p].stock = product[p].stock + QtyOf(orders[o].items, p)]_vars

\* C16: no step of a user's cancellation of a PAYMENT_PENDING or PAYMENT_FAILED order
\* changes a product's stock, and its last step sets the status CANCELLED
CancelOfUnpaidKeepsStock ==
    [][\A r \in InFlight :
          (/\ Steps(r)
           /\ r.kind \in {"cancel", "sbCancel"}
           /\ orders[r.oid].status \in {"PAYMENT_PENDING", "PAYMENT_FAILED"}) =>
              /\ product' = product
              /\ resp'.kind = r.kind => orders'[r.oid].status = "CANCELLED"]_vars

\* C17: no step changes an existing order's totalAmount, owner or items (productName,
\* unitPrice, discountPercent, finalPrice, quantity); a step that changes an order's
\* status changes nothing else of the order, except the payment id, signature and
\* payment time when the new status is ORDER_CONFIRMED
OrderSnapshotNeverChanges ==
    [][\A o \in OrderIds :
          /\ orders'[o].totalAmount = orders[o].totalAmount
          /\ orders'[o].userId = orders[o].userId
          /\ orders'[o].items = orders[o].items
          /\ orders'[o].status # orders[o].status =>
                IF orders'[o].status = "ORDER_CONFIRMED"
                THEN orders'[o].razorpayOrderId = orders[o].razorpayOrderId
                ELSE orders'[o] = [orders[o] EXCEPT !.status = orders'[o].status]]_vars

\* a confirmed order still carries the name and price of its creation right after an
\* admin has renamed or repriced the product
SnapshotKeptAfterProductEdit ==
    /\ Len(orders) = 1
    /\ orders[1].status = "ORDER_CONFIRMED"
    /\ resp.kind = "adminProduct"
    /\ orders[1].items[1].productId = "p1"
    /\ orders[1].items[1].productName = "Rice"
    /\ orders[1].items[1].unitPrice = 100
    /\ product["p1"].name = "Renamed"

\* C18: for each order the gateway is asked to create at most one payment intent, and
\* a gateway reference stored on an order is never replaced
OneIntentPerOrder ==
    /\ [](\A o \in OrderIds : hist[o].intents <= 1)
    /\ [][\A o \in OrderIds :
             orders[o].razorpayOrderId # Null =>
                 orders'[o].razorpayOrderId = orders[o].razorpayOrderId]_vars

\* C19: when the gateway call of an order creation fails, the creation is answered as a
\* success with a warning by a step that writes nothing; the order is then
\* PAYMENT_PENDING with no gateway reference and the total of its items, and a
\* payment-intent creation of its owner goes on to the gateway
CreationSurvivesGatewayFailure ==
    /\ [](resp.kind = "createOrder" /\ resp.code = "200_warning" =>
             LET order == orders[resp.oid]
             IN /\ order.status = "PAYMENT_PENDING"
                /\ order.razorpayOrderId = Null
                /\ order.items # <<>>
                /\ order.totalAmount = SumFinal(order.items))
    /\ [][resp'.kind = "createOrder" /\ resp'.code = "200_warning" =>
             UNCHANGED <<product, cartItems, orders, hist>>]_vars
    /\ [][\A r \in BagToSet(req') :
             (/\ Arrives(r)
              /\ r.kind = "paymentCreate"
              /\ r.user = orders[r.oid].userId
              /\ orders[r.oid].status = "PAYMENT_PENDING"
              /\ orders[r.oid].razorpayOrderId = Null
              /\ orders[r.oid].totalAmount > 0) => r.pc = "pc_gateway"]_vars

\* the first intent of an order was created, and its reference stored, by a
\* payment-intent creation: the gateway call of the order's creation had failed
ReferenceStoredAfterWarning ==
    /\ resp.kind = "paymentCreate"
    /\ resp.code = "200"
    /\ hist[resp.oid].intents = 1
    /\ orders[resp.oid].status = "PAYMENT_PENDING"
    /\ orders[resp.oid].razorpayOrderId = Some(<<resp.oid, 1>>)

OwnerScoped == {"verify", "paymentCreate", "cancel", "sbCancel", "markFailed"}

\* C20: a payment verification, payment-intent creation, user cancellation or
\* mark-failed call made by a user who is not the order's owner is answered 404 on
\* arrival by a step that writes nothing, and never gets to run a later step
NonOwnerIsNotFound ==
    [][/\ (resp'.kind \in OwnerScoped /\ resp'.user # orders[resp'.oid].userId) =>
             /\ resp'.code = "404"
             /\ req' = req
             /\ UNCHANGED <<product, cartItems, orders, hist>>
       /\ \A r \in BagToSet(req') :
             r.kind \in OwnerScoped => r.user = orders'[r.oid].userId]_vars

\* u2 has asked to verify u1's pending order, naming the order's own gateway
\* reference, and was answered 404
StrangerVerifyNotFound ==
    /\ resp.kind = "verify"
    /\ resp.user = "u2"
    /\ resp.code = "404"
    /\ orders[resp.oid].userId = "u1"
    /\ orders[resp.oid].status = "PAYMENT_PENDING"
    /\ orders[resp.oid].razorpayOrderId # Null
    /\ resp.ref = orders[resp.oid].razorpayOrderId

RowsOf(rows, u, p) == {c \in rows : c.userId = u /\ c.productId = p}

\* quantity of product p in u's cart, 0 when the cart has no row for it
RECURSIVE SumQuantity(_)
SumQuantity(rows) ==
    IF rows = {} THEN 0
    ELSE LET c == CHOOSE x \in rows : TRUE IN c.quantity + SumQuantity(rows \ {c})

\* the accepted items of a merge body that name product p
AcceptedFor(items, p) ==
    SelectSeq(items, LAMBDA it : it.productId = p /\ MergeItemAccepted(it))

RECURSIVE IncomingQuantity(_)
IncomingQuantity(items) ==
    IF items = <<>> THEN 0 ELSE Head(items).quantity + IncomingQuantity(Tail(items))

ConcurrentMergesAddUp ==
    [][\A r \in InFlight : (Steps(r) /\ r.pc = "mg_commit" /\ MergeItemAccepted(r.items[1])) =>
          LET p == r.items[1].productId
              e == SumQuantity(RowsOf(cartItems, r.user, p))
              after == RowsOf(cartItems', r.user, p)
          IN /\ resp'.code = "200"
             /\ Cardinality(after) = 1
             /\ \A d \in after : d.quantity = Min(e + r.items[1].quantity, 99)]_vars

\* C28: a merge whose body names a product more than once leaves exactly one row for
\* that product, with quantity min(e + sum of the accepted incoming quantities, 99),
\* e being the quantity in the cart before (0 if absent)
RepeatedProductMergedOnce ==
    [][\A r \in InFlight : (Steps(r) /\ r.pc = "mg_commit") =>
          \A p \in Products :
             Len(AcceptedFor(r.items, p)) > 1 =>
                LET e == SumQuantity(RowsOf(cartItems, r.user, p))
                    after == RowsOf(cartItems', r.user, p)
                IN /\ Cardinality(after) = 1
                   /\ \A d \in after :
                         d.quantity = Min(e + IncomingQuantity(AcceptedFor(r.items, p)), 99)]_vars

\* x / 100 rounded to the nearest integer, half up, in exact arithmetic, x >= 0
RoundDiv100(x) == (2 * x + 100) \div 200

\* the unit price in exact arithmetic: round(price * (100 - discountPercent) / 100)
ExactUnitPrice(price, discountPercent) ==
    IF discountPercent = Null \/ discountPercent = Some(0) THEN price
    ELSE RoundDiv100(price * (100 - Get(discountPercent)))

\* C23: the step that inserts an order snapshots, for every item, unitPrice =
\* round(price * (100 - discountPercent) / 100) of the product row (the price itself
\* when the discount is absent or 0) and finalPrice = unitPrice * quantity, with
\* 0 <= unitPrice <= price; totalAmount is the sum of the final prices and the status
\* PAYMENT_PENDING; price 10000 at 10 percent, quantity 2, gives 9000 and 18000.
SnapshotPriceIsExactRounding ==
    [][Len(orders') = Len(orders) + 1 =>
         LET order == orders'[Len(orders')]
         IN /\ order.status = "PAYMENT_PENDING"
            /\ order.totalAmount = SumFinal(order.items)
            /\ \A k \in 1..Len(order.items) :
                  LET it == order.items[k]
                      row == product[it.productId]
                  IN /\ it.unitPrice = ExactUnitPrice(row.price, row.discountPercent)
                     /\ it.finalPrice = it.unitPrice * it.quantity
                     /\ 0 <= it.unitPrice /\ it.unitPrice <= row.price
                     /\ (row.price = 10000 /\ row.discountPercent = Some(10)
                           /\ it.quantity = 2)
                        => (it.unitPrice = 9000 /\ it.finalPrice = 18000)]_vars

\* C24: a verification request of the order's owner that is answered while the order
\* is ORDER_CONFIRMED gets the idempotent success answer, whatever gateway order id,
\* payment id and signature it carries, and changes nothing; one answered while the
\* order is in a status other than PAYMENT_PENDING and ORDER_CONFIRMED is rejected
\* and changes nothing.
ConfirmedOrderVerifiesIdempotently ==
    [][(/\ req' = req
        /\ resp'.kind = "verify"
        /\ resp'.oid \in OrderIds
        /\ orders[resp'.oid].userId = resp'.user)
       => /\ orders[resp'.oid].status = "ORDER_CONFIRMED"
               => (resp'.code = "200_already_confirmed" /\ DbUnchanged)
          /\ orders[resp'.oid].status \notin {"PAYMENT_PENDING", "ORDER_CONFIRMED"}
               => (resp'.code \in {"400_status", "400_ref_mismatch"} /\ DbUnchanged)]_vars

\* the stock every behaviour of Init starts with
InitialStock(p) == IF p = "p1" THEN 1 ELSE 2

\* units of p held by orders that are confirmed or later
RECURSIVE HeldFrom(_, _)
HeldFrom(o, p) ==
    IF o = 0 THEN 0
    ELSE (IF orders[o].status \in {"ORDER_CONFIRMED", "SHIPPED", "DELIVERED"}
          THEN QtyOf(orders[o].items, p) ELSE 0) + HeldFrom(o - 1, p)

\* C25: as long as no admin has edited a product, every product's initial stock is
\* its current stock plus the quantities of it in the orders that are ORDER_CONFIRMED,
\* SHIPPED or DELIVERED: an order holds stock exactly while it is confirmed or later.
StockConserved ==
    adminOps = 0 =>
        \A p \in Products : InitialStock(p) = product[p].stock + HeldFrom(Len(orders), p)

\* C26: whatever cancellations of a confirmed order run together, a step adds the
\* order's quantities back to the stock only if no earlier step has added them back.
StockRestoredOnce ==
    [][\A o \in OrderIds :
          (/\ hist'[o].restores > hist[o].restores
           /\ hist[o].confirms >= 1
           /\ orders[o].status \in {"ORDER_CONFIRMED", "CANCELLED"})
          => hist[o].restores = 0]_vars

\* C27: no step of a mark-failed or user-cancel request takes an order that a
\* verification has confirmed in the meantime from ORDER_CONFIRMED to PAYMENT_FAILED or
\* CANCELLED while leaving its stock decrement in place.
ConfirmationNotOverwritten ==
    [][\A o \in OrderIds :
          (/\ orders[o].status = "ORDER_CONFIRMED"
           /\ orders'[o].status \in {"PAYMENT_FAILED", "CANCELLED"}
           /\ hist'[o].restores = hist[o].restores)
          => ~\E r \in InFlight :
                 Steps(r) /\ r.kind \in {"markFailed", "cancel"} /\ r.oid = o]_vars

\* C29: once no request is in flight every order in the store has totalAmount > 0,
\* and an order creation that is answered with an error has created no order.
EveryOrderHasAnAmount ==
    /\ req = EmptyBag => \A o \in OrderIds : orders[o].totalAmount > 0
    /\ (resp.kind = "createOrder" /\ resp.code \notin {"200", "200_warning"}) => resp.oid = 0

\* C30: an order that is ORDER_CONFIRMED, SHIPPED or DELIVERED has a gateway order
\* reference, a gateway payment reference, a signature and a payment time; an order
\* that was never confirmed has no payment reference, signature or payment time.
PaidOrdersCarryPaymentData ==
    \A o \in OrderIds :
       /\ orders[o].status \in {"ORDER_CONFIRMED", "SHIPPED", "DELIVERED"}
            => /\ orders[o].razorpayOrderId # Null
               /\ orders[o].razorpayPaymentId # Null
               /\ orders[o].razorpaySignature # Null
               /\ orders[o].paidAt # Null
       /\ hist[o].confirms = 0
            => /\ orders[o].razorpayPaymentId = Null
               /\ orders[o].razorpaySignature = Null
               /\ orders[o].paidAt = Null

\* an order was paid and then shipped
ShippedOrderCarriesPaymentData ==
    \E o \in OrderIds :
       /\ orders[o].status = "SHIPPED"
       /\ orders[o].razorpayPaymentId = Some("pay_1")
       /\ orders[o].paidAt # Null
       /\ hist[o].confirms = 1

====
